---- MODULE Spec2Model ----
(***************************************************************************)
(* A model of beep_player.py: the PC-speaker player that programs PIT      *)
(* channel 2 and the speaker gate of port 0x61 through raw port I/O.       *)
(*                                                                         *)
(* Representation.                                                         *)
(*  - A string is a sequence of one-character strings.  The character      *)
(*    "sup2" stands for U+00B2 SUPERSCRIPT TWO, a character for which      *)
(*    str.isdigit() is True and int() raises ValueError.                   *)
(*  - A frequency is an integer number of centi-hertz (261.63 Hz is        *)
(*    26163), so that the fractional Note Table and int() are exact.       *)
(*  - A duration is an integer number of milliseconds.                     *)
(*  - A port operation or sleep is a record [op, a, b] appended to ops.    *)
(***************************************************************************)
EXTENDS Integers, Sequences, FiniteSets, TLC

VARIABLES
    args_notes,   \* args.notes: a string, or None
    args_loop,    \* args.loop: "true" or "false"
    pc,           \* position in main / interactive_mode
    user_input,   \* interactive_mode: the last line read by input(">> ")
    tokens,       \* parse_and_play: the token list
    ti,           \* parse_and_play: index of the current token
    freq,         \* parse_and_play: freq of the current token (centi-Hz)
    ppc,          \* position in parse_and_play
    bpc,          \* position in hardware_beep
    bfreq,        \* hardware_beep: freq after int() (Hz)
    duration,     \* hardware_beep: duration (ms)
    divisor,      \* hardware_beep: divisor
    val,          \* hardware_beep: val, the last byte read from port 0x61
    port61,       \* the speaker-control register behind port 0x61
    entry61,      \* history: port61 when the current hardware_beep was entered
    ops,          \* history: what the current playback did, cleared on return
    interrupted,  \* history: a KeyboardInterrupt has been delivered
    intAt,        \* history: <<pc, ppc, bpc>> where the interrupt was delivered
    exit_status,  \* the process exit status, -1 while running
    passes        \* history: completed parse_and_play calls, saturating

vars == <<args_notes, args_loop, pc, user_input, tokens, ti, freq, ppc, bpc,
          bfreq, duration, divisor, val, port61, entry61, ops, interrupted,
          intAt, exit_status, passes>>

----------------------------------------------------------------------------
(* Bounds of the model *)

\* passes saturates here; the loop itself is never cut
MaxPasses == 2

\* numeric tokens of every length up to this one are among the inputs
MaxDigits == 2

----------------------------------------------------------------------------
(* Program constants *)

DEFAULT_DURATION == 300
DEFAULT_GAP == 50
LOOP_PAUSE == 500
PIT_CLOCK == 1193180
MIN_FREQ == 37
MAX_FREQ == 32767
PORT_PIT_CMD == 67
PORT_PIT_DATA == 66
PORT_SPEAKER == 97
PIT_MODE == 182
GATE_ON == 3
GATE_OFF == 252

\* NOTES_FREQ as a set of <<key, centi-Hz>> pairs
NoteTable ==
    { << <<"C","3">>, 13081 >>, << <<"C","#","3">>, 13859 >>,
      << <<"D","3">>, 14683 >>, << <<"D","#","3">>, 15556 >>,
      << <<"E","3">>, 16481 >>, << <<"F","3">>, 17461 >>,
      << <<"F","#","3">>, 18500 >>, << <<"G","3">>, 19600 >>,
      << <<"G","#","3">>, 20765 >>, << <<"A","3">>, 22000 >>,
      << <<"A","#","3">>, 23308 >>, << <<"B","3">>, 24694 >>,
      << <<"C","4">>, 26163 >>, << <<"C","#","4">>, 27718 >>,
      << <<"D","4">>, 29366 >>, << <<"D","#","4">>, 31113 >>,
      << <<"E","4">>, 32963 >>, << <<"F","4">>, 34923 >>,
      << <<"F","#","4">>, 36999 >>, << <<"G","4">>, 39200 >>,
      << <<"G","#","4">>, 41530 >>, << <<"A","4">>, 44000 >>,
      << <<"A","#","4">>, 46616 >>, << <<"B","4">>, 49388 >>,
      << <<"C","5">>, 52325 >>, << <<"C","#","5">>, 55437 >>,
      << <<"D","5">>, 58733 >>, << <<"D","#","5">>, 62225 >>,
      << <<"E","5">>, 65925 >>, << <<"F","5">>, 69846 >>,
      << <<"F","#","5">>, 73999 >>, << <<"G","5">>, 78399 >>,
      << <<"G","#","5">>, 83061 >>, << <<"A","5">>, 88000 >>,
      << <<"A","#","5">>, 93233 >>, << <<"B","5">>, 98777 >> }

\* token in NOTES_FREQ
InNotes(token) == \E p \in NoteTable : p[1] = token

\* NOTES_FREQ[token]
NOTES_FREQ(token) == (CHOOSE p \in NoteTable : p[1] = token)[2]

----------------------------------------------------------------------------
(* Strings *)

LowerLetters ==
    <<"a","b","c","d","e","f","g","h","i","j","k","l","m",
      "n","o","p","q","r","s","t","u","v","w","x","y","z">>

UpperLetters ==
    <<"A","B","C","D","E","F","G","H","I","J","K","L","M",
      "N","O","P","Q","R","S","T","U","V","W","X","Y","Z">>

DecimalDigits == <<"0","1","2","3","4","5","6","7","8","9">>

\* characters split() separates on
Whitespace == {" ", "\t", "\n"}

\* characters c with c.isdigit(): the decimal digits and also digit
\* characters that are not decimal, here U+00B2
IsDigitChar(c) ==
    \/ \E i \in DOMAIN DecimalDigits : DecimalDigits[i] = c
    \/ c = "sup2"

\* characters int() accepts
IsDecimalChar(c) == \E i \in DOMAIN DecimalDigits : DecimalDigits[i] = c

DigitValue(c) == (CHOOSE i \in DOMAIN DecimalDigits : DecimalDigits[i] = c) - 1

UpperChar(c) ==
    IF \E i \in DOMAIN LowerLetters : LowerLetters[i] = c
    THEN UpperLetters[CHOOSE i \in DOMAIN LowerLetters : LowerLetters[i] = c]
    ELSE c

LowerChar(c) ==
    IF \E i \in DOMAIN UpperLetters : UpperLetters[i] = c
    THEN LowerLetters[CHOOSE i \in DOMAIN UpperLetters : UpperLetters[i] = c]
    ELSE c

\* s.upper()
StrUpper(s) == [i \in 1..Len(s) |-> UpperChar(s[i])]

\* s.lower()
StrLower(s) == [i \in 1..Len(s) |-> LowerChar(s[i])]

\* s.replace(",", " ")
ReplaceCommas(s) == [i \in 1..Len(s) |-> IF s[i] = "," THEN " " ELSE s[i]]

\* s.split(): the maximal runs of non-whitespace characters, in order
RECURSIVE SplitFrom(_, _, _, _)
SplitFrom(s, i, cur, acc) ==
    IF i > Len(s)
    THEN IF cur = <<>> THEN acc ELSE Append(acc, cur)
    ELSE IF s[i] \in Whitespace
         THEN SplitFrom(s, i + 1, <<>>,
                        IF cur = <<>> THEN acc ELSE Append(acc, cur))
         ELSE SplitFrom(s, i + 1, Append(cur, s[i]), acc)

StrSplit(s) == SplitFrom(s, 1, <<>>, <<>>)

\* notes_str.replace(",", " ").split()
Tokenize(notes_str) == StrSplit(ReplaceCommas(notes_str))

\* token.isdigit(): non-empty and every character a digit character
IsDigit(token) ==
    /\ Len(token) > 0
    /\ \A i \in 1..Len(token) : IsDigitChar(token[i])

\* int(token) raises ValueError unless every character is a decimal digit
IntRaises(token) ==
    \/ Len(token) = 0
    \/ \E i \in 1..Len(token) : ~IsDecimalChar(token[i])

\* int(token) for a token of decimal digits
RECURSIVE ParseInt(_)
ParseInt(token) ==
    IF Len(token) = 0 THEN 0
    ELSE 10 * ParseInt(SubSeq(token, 1, Len(token) - 1))
         + DigitValue(token[Len(token)])

----------------------------------------------------------------------------
(* Arithmetic of hardware_beep *)

\* int(freq) replaced by rounding to the nearest integer
PyIntRounded(fc) == (fc + 50) \div 100

\* int(freq) of a frequency in centi-Hz: truncation toward zero, in Hz
PyInt(fc) == IF fc >= 0 THEN fc \div 100 ELSE -((-fc) \div 100)

\* the guard of line 53, negated: the frequency is played
InRange(f) == ~(f < MIN_FREQ \/ f > MAX_FREQ)

\* the divisor rounded to the nearest integer instead of truncated
DivisorNearest(f) == (PIT_CLOCK + f \div 2) \div f

\* int(1193180 / freq) for an integer freq in range (the float quotient of
\* two integers below 2^53 never rounds up to the next integer here)
Divisor(f) == PIT_CLOCK \div f

\* divisor & 0xFF
LoByte(d) == d % 256

\* (divisor >> 8) & 0xFF
HiByte(d) == (d \div 256) % 256

RECURSIVE BitAnd(_, _, _)
BitAnd(a, b, n) ==
    IF n = 0 THEN 0
    ELSE (IF a % 2 = 1 /\ b % 2 = 1 THEN 1 ELSE 0)
         + 2 * BitAnd(a \div 2, b \div 2, n - 1)

RECURSIVE BitOr(_, _, _)
BitOr(a, b, n) ==
    IF n = 0 THEN 0
    ELSE (IF a % 2 = 1 \/ b % 2 = 1 THEN 1 ELSE 0)
         + 2 * BitOr(a \div 2, b \div 2, n - 1)

\* val | 0x03, as the byte out_port writes
GateEnable(v) == BitOr(v, GATE_ON, 8)

\* a mask that clears bit 0 only
GateDisableBit0(v) == BitAnd(v, 254, 8)

\* val & 0xFC
GateDisable(v) == BitAnd(v, GATE_OFF, 8)

\* the gate enabled before the timer is programmed
BeepOrderGateFirst ==
    <<"r61en", "w61en", "w43", "w42lo", "w42hi", "sleep", "r61dis", "w61dis">>

\* the statements of hardware_beep after the guard, in program order
BeepOrder ==
    <<"w43", "w42lo", "w42hi", "r61en", "w61en", "sleep", "r61dis", "w61dis">>

\* the statement after statement b; "ret" after the last
NextStep(b) ==
    LET i == CHOOSE k \in DOMAIN BeepOrder : BeepOrder[k] = b
    IN  IF i = Len(BeepOrder) THEN "ret" ELSE BeepOrder[i + 1]

----------------------------------------------------------------------------
(* Resolution of a token in parse_and_play *)

\* lines 78-84 raise ValueError: the token passes isdigit() and int() rejects it
ResolveRaises(token) ==
    LET t == StrUpper(token)
    IN  ~InNotes(t) /\ IsDigit(t) /\ IntRaises(t)

\* freq after lines 78-84, in centi-Hz
Resolve(token) ==
    LET t == StrUpper(token)
    IN  IF InNotes(t) THEN NOTES_FREQ(t)
        ELSE IF IsDigit(t) THEN 100 * ParseInt(t)
        ELSE 0

\* line 86, after a resolution that did not play a tone for zero
PlaysToneNonNegative(f) == f >= 0

\* line 86: if freq > 0
PlaysTone(f) == f > 0

----------------------------------------------------------------------------
(* Inputs *)

\* args.notes when --notes is not given
None == <<"None">>

\* the truth value of args.notes at line 126
Truthy(s) == s # None /\ s # <<>>

DigitPool == {"0", "3", "4", "7"}

NumericInputs == UNION { [1..n -> DigitPool] : n \in 1..MaxDigits }

TextInputs ==
    { <<"C","4"," ","E","4"," ","G","4">>,
      <<"C","4"," ","-"," ","G","4">>,
      <<"c","4",",","4","4","0">>,
      <<>>,
      <<" ">>,
      <<"3","6",",","3","7">>,
      <<"3","2","7","6","7","\t","3","2","7","6","8">>,
      <<"sup2">>,
      <<"A","4"," ","4","sup2">>,
      <<"P"," ","x","y","z",","," ","a","#","4">>,
      <<"0"," ","0","0","0"," ","g","5">>,
      <<"C","4","E","4">> }

Inputs == TextInputs \cup NumericInputs

ExitWords == { <<"e","x","i","t">>, <<"q","u","i","t">> }

PromptInputs ==
    Inputs \cup ExitWords \cup { <<"E","X","I","T">>, <<"Q","u","i","t">> }

\* values of the speaker-control register when the program starts
PortInits == {0, 3, 164, 255}

\* frequencies handed to hardware_beep directly, in centi-Hz
ToneFreqs ==
    {-50, 0, 3600, 3660, 3699, 3700, 3750, 26163, 44000, 98777,
     3276700, 3276760, 3276799, 3276800, 6553600}

Op(o, x, y) == [op |-> o, a |-> x, b |-> y]

----------------------------------------------------------------------------
(* Initial states *)

InitCommon ==
    /\ user_input = <<>>
    /\ tokens = <<>>
    /\ ti = 0
    /\ freq = 0
    /\ ppc = "idle"
    /\ bpc = "idle"
    /\ bfreq = 0
    /\ duration = 0
    /\ divisor = 0
    /\ val = 0
    /\ entry61 = port61
    /\ ops = <<>>
    /\ interrupted = FALSE
    /\ intAt = <<"", "", "">>
    /\ exit_status = -1
    /\ passes = 0

\* the process after argparse, about to execute line 126
Init ==
    /\ args_notes \in Inputs \cup {None}
    /\ args_loop \in {"true", "false"}
    /\ pc = "main"
    /\ port61 \in PortInits
    /\ InitCommon

\* a caller about to invoke hardware_beep once, for every register value
InitTone ==
    /\ args_notes = None
    /\ args_loop = "false"
    /\ pc = "tone_call"
    /\ port61 \in 0..255
    /\ InitCommon

----------------------------------------------------------------------------
(* hardware_beep, one action per statement *)

HBFrame ==
    UNCHANGED <<args_notes, args_loop, pc, user_input, tokens, ti, freq, ppc,
                duration, entry61, interrupted, intAt, exit_status, passes>>

\* lines 52-56: int(), the range guard, the divisor
HB_Entry ==
    /\ bpc = "entry"
    /\ bfreq' = PyInt(freq)
    /\ IF InRange(bfreq')
       THEN /\ divisor' = Divisor(bfreq')
            /\ bpc' = BeepOrder[1]
       ELSE /\ divisor' = divisor
            /\ bpc' = "ret"
    /\ UNCHANGED <<val, port61, ops>>
    /\ HBFrame

\* line 59: out_port(0x43, 0xB6)
HB_W43 ==
    /\ bpc = "w43"
    /\ ops' = Append(ops, Op("out", PORT_PIT_CMD, PIT_MODE))
    /\ bpc' = NextStep("w43")
    /\ UNCHANGED <<bfreq, divisor, val, port61>>
    /\ HBFrame

\* line 60: out_port(0x42, divisor & 0xFF)
HB_W42lo ==
    /\ bpc = "w42lo"
    /\ ops' = Append(ops, Op("out", PORT_PIT_DATA, LoByte(divisor)))
    /\ bpc' = NextStep("w42lo")
    /\ UNCHANGED <<bfreq, divisor, val, port61>>
    /\ HBFrame

\* line 61: out_port(0x42, (divisor >> 8) & 0xFF)
HB_W42hi ==
    /\ bpc = "w42hi"
    /\ ops' = Append(ops, Op("out", PORT_PIT_DATA, HiByte(divisor)))
    /\ bpc' = NextStep("w42hi")
    /\ UNCHANGED <<bfreq, divisor, val, port61>>
    /\ HBFrame

\* line 64: val = in_port(0x61)
HB_R61en ==
    /\ bpc = "r61en"
    /\ val' = port61
    /\ ops' = Append(ops, Op("in", PORT_SPEAKER, port61))
    /\ bpc' = NextStep("r61en")
    /\ UNCHANGED <<bfreq, divisor, port61>>
    /\ HBFrame

\* line 65: out_port(0x61, val | 0x03)
HB_W61en ==
    /\ bpc = "w61en"
    /\ port61' = GateEnable(val)
    /\ ops' = Append(ops, Op("out", PORT_SPEAKER, GateEnable(val)))
    /\ bpc' = NextStep("w61en")
    /\ UNCHANGED <<bfreq, divisor, val>>
    /\ HBFrame

\* line 67: time.sleep(duration), completed
HB_Sleep ==
    /\ bpc = "sleep"
    /\ ops' = Append(ops, Op("sleep_beep", duration, 0))
    /\ bpc' = NextStep("sleep")
    /\ UNCHANGED <<bfreq, divisor, val, port61>>
    /\ HBFrame

\* line 70: val = in_port(0x61)
HB_R61dis ==
    /\ bpc = "r61dis"
    /\ val' = port61
    /\ ops' = Append(ops, Op("in", PORT_SPEAKER, port61))
    /\ bpc' = NextStep("r61dis")
    /\ UNCHANGED <<bfreq, divisor, port61>>
    /\ HBFrame

\* line 71: out_port(0x61, val & 0xFC)
HB_W61dis ==
    /\ bpc = "w61dis"
    /\ port61' = GateDisable(val)
    /\ ops' = Append(ops, Op("out", PORT_SPEAKER, GateDisable(val)))
    /\ bpc' = NextStep("w61dis")
    /\ UNCHANGED <<bfreq, divisor, val>>
    /\ HBFrame

----------------------------------------------------------------------------
(* parse_and_play *)

PPFrame ==
    UNCHANGED <<args_notes, args_loop, user_input, port61, interrupted, intAt,
                passes>>

\* lines 77-86 for the next token: resolve it and branch; int() may raise,
\* and nothing up the stack catches ValueError
PP_Token ==
    /\ ppc = "for"
    /\ ti <= Len(tokens)
    /\ IF ResolveRaises(tokens[ti])
       THEN /\ pc' = "crashed"
            /\ exit_status' = 1
            /\ ppc' = "idle"
            /\ freq' = 0
       ELSE /\ freq' = Resolve(tokens[ti])
            /\ ppc' = IF PlaysTone(freq') THEN "call" ELSE "pause"
            /\ UNCHANGED <<pc, exit_status>>
    /\ UNCHANGED <<tokens, ti, bpc, bfreq, duration, divisor, val, entry61,
                   ops>>
    /\ PPFrame

\* line 87: hardware_beep(freq, DEFAULT_DURATION) is entered
PP_CallBeep ==
    /\ ppc = "call"
    /\ ppc' = "in_beep"
    /\ bpc' = "entry"
    /\ duration' = DEFAULT_DURATION
    /\ entry61' = port61
    /\ ops' = Append(ops, Op("beep", freq, DEFAULT_DURATION))
    /\ UNCHANGED <<pc, exit_status, tokens, ti, freq, bfreq, divisor, val>>
    /\ PPFrame

\* line 88: hardware_beep has returned and its locals are gone;
\* time.sleep(DEFAULT_GAP), completed
PP_Gap ==
    /\ ppc = "in_beep"
    /\ bpc = "ret"
    /\ bpc' = "idle"
    /\ bfreq' = 0
    /\ duration' = 0
    /\ divisor' = 0
    /\ val' = 0
    /\ ops' = Append(ops, Op("sleep_play", DEFAULT_GAP, 0))
    /\ ti' = ti + 1
    /\ ppc' = "for"
    /\ UNCHANGED <<pc, exit_status, tokens, freq, entry61>>
    /\ PPFrame

\* line 91: time.sleep(DEFAULT_DURATION), completed
PP_Pause ==
    /\ ppc = "pause"
    /\ ops' = Append(ops, Op("sleep_play", DEFAULT_DURATION, 0))
    /\ ti' = ti + 1
    /\ ppc' = "for"
    /\ UNCHANGED <<pc, exit_status, tokens, freq, bpc, bfreq, duration,
                   divisor, val, entry61>>
    /\ PPFrame

\* line 77: the token list is exhausted, parse_and_play returns
PP_Return ==
    /\ ppc = "for"
    /\ ti > Len(tokens)
    /\ ppc' = "ret"
    /\ UNCHANGED <<pc, exit_status, tokens, ti, freq, bpc, bfreq, duration,
                   divisor, val, entry61, ops>>
    /\ PPFrame

----------------------------------------------------------------------------
(* main and interactive_mode *)

MainFrame ==
    UNCHANGED <<args_notes, args_loop, bpc, bfreq, duration, divisor, val,
                port61, entry61, interrupted, intAt>>

Bump(n) == IF n < MaxPasses THEN n + 1 ELSE n

\* lines 126-141: the mode is chosen from args.notes and args.loop
Main ==
    /\ pc = "main"
    /\ pc' = IF Truthy(args_notes)
             THEN IF args_loop = "true" THEN "loop_call" ELSE "once_call"
             ELSE "prompt"
    /\ UNCHANGED <<user_input, tokens, ti, freq, ppc, ops, exit_status,
                   passes>>
    /\ MainFrame

\* line 133: parse_and_play(args.notes) is entered in the loop
LoopCall ==
    /\ pc = "loop_call"
    /\ pc' = "loop_wait"
    /\ tokens' = Tokenize(args_notes)
    /\ ti' = 1
    /\ ppc' = "for"
    /\ ops' = <<>>
    /\ UNCHANGED <<user_input, freq, exit_status, passes>>
    /\ MainFrame

\* the locals of parse_and_play are gone when it has returned
Returned ==
    /\ ppc = "ret"
    /\ ppc' = "idle"
    /\ tokens' = <<>>
    /\ ti' = 0
    /\ freq' = 0
    /\ passes' = Bump(passes)

\* line 134: parse_and_play has returned; time.sleep(0.5), completed;
\* back to the head of while True
LoopSleep ==
    /\ pc = "loop_wait"
    /\ Returned
    /\ ops' = << Op("sleep_main", LOOP_PAUSE, 0) >>
    /\ pc' = "loop_call"
    /\ UNCHANGED <<user_input, exit_status>>
    /\ MainFrame

\* line 136: parse_and_play(args.notes) is entered once
OnceCall ==
    /\ pc = "once_call"
    /\ pc' = "once_wait"
    /\ tokens' = Tokenize(args_notes)
    /\ ti' = 1
    /\ ppc' = "for"
    /\ ops' = <<>>
    /\ UNCHANGED <<user_input, freq, exit_status, passes>>
    /\ MainFrame

\* line 136 returns; main returns and the process ends normally
OnceReturn ==
    /\ pc = "once_wait"
    /\ Returned
    /\ ops' = <<>>
    /\ pc' = "done"
    /\ exit_status' = 0
    /\ UNCHANGED user_input
    /\ MainFrame

\* lines 106-109: a line is read at ">> "; exit/quit breaks, anything else
\* is played
Prompt ==
    /\ pc = "prompt"
    /\ \E line \in PromptInputs :
        /\ user_input' = line
        /\ IF StrLower(line) \in ExitWords
           THEN /\ pc' = "done"
                /\ exit_status' = 0
                /\ UNCHANGED <<tokens, ti, ppc, ops>>
           ELSE /\ pc' = "play_wait"
                /\ tokens' = Tokenize(line)
                /\ ti' = 1
                /\ ppc' = "for"
                /\ ops' = <<>>
                /\ UNCHANGED exit_status
    /\ UNCHANGED <<freq, passes>>
    /\ MainFrame

\* line 109 returns; back to the head of while True
PromptReturn ==
    /\ pc = "play_wait"
    /\ Returned
    /\ ops' = <<>>
    /\ pc' = "prompt"
    /\ UNCHANGED <<user_input, exit_status>>
    /\ MainFrame

----------------------------------------------------------------------------
(* KeyboardInterrupt *)

\* the positions inside the try of lines 129-138 or of lines 105-112
InTry(p) ==
    p \in {"loop_call", "loop_wait", "once_call", "once_wait",
           "prompt", "play_wait"}

\* an interactive_mode whose handler continues the loop instead of breaking
OnKeyboardInterruptResume(p) ==
    IF p \in {"prompt", "play_wait"} THEN "prompt" ELSE "done"

\* where control goes from position p: line 138 is sys.exit(0), lines
\* 111-112 print "Exiting..." and break, after which main returns
OnKeyboardInterrupt(p) == "done"

\* a KeyboardInterrupt is delivered inside one of the try statements, at
\* any statement or during any sleep or input; the frames of parse_and_play
\* and hardware_beep are unwound without running anything (there is no
\* finally)
Interrupt ==
    /\ InTry(pc)
    /\ interrupted' = TRUE
    /\ intAt' = <<pc, ppc, bpc>>
    /\ pc' = OnKeyboardInterrupt(pc)
    /\ exit_status' = IF pc' = "done" THEN 0 ELSE exit_status
    /\ ppc' = "idle"
    /\ bpc' = "idle"
    /\ UNCHANGED <<args_notes, args_loop, user_input, tokens, ti, freq, bfreq,
                   duration, divisor, val, port61, entry61, ops, passes>>

----------------------------------------------------------------------------
(* A direct caller of hardware_beep *)

\* hardware_beep(fc, DEFAULT_DURATION) is entered
ToneCall ==
    /\ pc = "tone_call"
    /\ \E fc \in ToneFreqs : freq' = fc
    /\ pc' = "tone_wait"
    /\ bpc' = "entry"
    /\ duration' = DEFAULT_DURATION
    /\ entry61' = port61
    /\ ops' = Append(ops, Op("beep", freq', DEFAULT_DURATION))
    /\ UNCHANGED <<args_notes, args_loop, user_input, tokens, ti, ppc, bfreq,
                   divisor, val, port61, interrupted, intAt, exit_status,
                   passes>>

\* hardware_beep has returned
ToneReturn ==
    /\ pc = "tone_wait"
    /\ bpc = "ret"
    /\ bpc' = "idle"
    /\ pc' = "tone_done"
    /\ UNCHANGED <<args_notes, args_loop, user_input, tokens, ti, freq, ppc,
                   bfreq, duration, divisor, val, port61, entry61, ops,
                   interrupted, intAt, exit_status, passes>>

----------------------------------------------------------------------------
(* Specifications *)

Next ==
    \/ Main
    \/ LoopCall
    \/ LoopSleep
    \/ OnceCall
    \/ OnceReturn
    \/ Prompt
    \/ PromptReturn
    \/ PP_Token
    \/ PP_CallBeep
    \/ PP_Gap
    \/ PP_Pause
    \/ PP_Return
    \/ HB_Entry
    \/ HB_W43
    \/ HB_W42lo
    \/ HB_W42hi
    \/ HB_R61en
    \/ HB_W61en
    \/ HB_Sleep
    \/ HB_R61dis
    \/ HB_W61dis
    \/ Interrupt

Spec == Init /\ [][Next]_vars

NextTone ==
    \/ ToneCall
    \/ HB_Entry
    \/ HB_W43
    \/ HB_W42lo
    \/ HB_W42hi
    \/ HB_R61en
    \/ HB_W61en
    \/ HB_Sleep
    \/ HB_R61dis
    \/ HB_W61dis
    \/ ToneReturn

SpecTone == InitTone /\ [][NextTone]_vars

----------------------------------------------------------------------------
(* Vocabulary of the properties *)

\* bits 0 and 1 of a register value
GateBitsOf(v) == v % 4

\* bits 2-7 of a register value
UpperBitsOf(v) == v \div 4

IsSpeakerWrite(e) == e.op = "out" /\ e.a = PORT_SPEAKER

IsTimerWrite(e) == e.op = "out" /\ e.a \in {PORT_PIT_CMD, PORT_PIT_DATA}

IsDataWrite(e) == e.op = "out" /\ e.a = PORT_PIT_DATA

IsPortOp(e) == e.op \in {"in", "out"}

\* what parse_and_play itself does: tone invocations and its own sleeps
IsPlayStep(e) == e.op \in {"beep", "sleep_play"}

PlaySteps == SelectSeq(ops, IsPlayStep)

SpeakerWrites == SelectSeq(ops, IsSpeakerWrite)

DataWrites == SelectSeq(ops, IsDataWrite)

\* the token is composed entirely of decimal digits
AllDecimal(token) ==
    /\ Len(token) > 0
    /\ \A i \in 1..Len(token) : token[i] \in {"0","1","2","3","4","5","6","7","8","9"}

RECURSIVE Pow10(_)
Pow10(n) == IF n = 0 THEN 1 ELSE 10 * Pow10(n - 1)

RECURSIVE DecimalValueFrom(_, _)
DecimalValueFrom(token, i) ==
    IF i > Len(token) THEN 0
    ELSE DigitValue(token[i]) * Pow10(Len(token) - i)
         + DecimalValueFrom(token, i + 1)

\* the numeric value of a token of decimal digits, most significant first
DecimalValue(token) == DecimalValueFrom(token, 1)

\* the token is a Note Table key after upper-casing
IsNoteName(token) == \E p \in NoteTable : p[1] = StrUpper(token)

\* neither a Note Table key nor purely numeric
Unrecognized(token) == ~IsNoteName(token) /\ ~AllDecimal(token)

\* the steps of parse_and_play for one tone, and for one pause
ToneSteps(fc) ==
    << Op("beep", fc, DEFAULT_DURATION), Op("sleep_play", DEFAULT_GAP, 0) >>

PauseSteps == << Op("sleep_play", DEFAULT_DURATION, 0) >>

\* the last n elements of a sequence
Tail_n(q, n) == SubSeq(q, Len(q) - n + 1, Len(q))

\* the play steps end with exactly these steps for the token just processed:
\* what precedes them is the end of an earlier token, or nothing
EndsWithToken(steps) ==
    LET n == Len(steps) m == Len(PlaySteps)
    IN  /\ m >= n
        /\ Tail_n(PlaySteps, n) = steps
        /\ m > n => PlaySteps[m - n].op = "sleep_play"

\* parse_and_play has just finished a token: it is back at the loop head
TokenDone == ppc = "for" /\ ti > 1

\* the input string of the current parse_and_play call
PlayedInput == IF Truthy(args_notes) THEN args_notes ELSE user_input

Interactive == pc \in {"prompt", "play_wait"}

----------------------------------------------------------------------------
(* C1 *)

\* C1: when a KeyboardInterrupt stops playback at a point of a tone
\* invocation, the speaker gate is left disabled: bits 0 and 1 of port 0x61
\* are 0 once the process has stopped.  Stated for invocations that began
\* with the gate disabled, so that a set bit is one this invocation set.
C1_GateOffAfterInterrupt ==
    ( /\ interrupted
      /\ intAt[3] \in {"entry"} \cup { BeepOrder[k] : k \in DOMAIN BeepOrder }
      /\ GateBitsOf(entry61) = 0 )
    => GateBitsOf(port61) = 0

----------------------------------------------------------------------------
(* C2 *)

\* the interrupt was delivered while parse_and_play was blocked in a sleep
\* of an interactive playback: the note sleep, the gap sleep or a pause
BlockedInPlayback ==
    /\ interrupted
    /\ intAt[1] = "play_wait"
    /\ \/ intAt[3] = "sleep"
       \/ intAt[2] = "pause"
       \/ (intAt[2] = "in_beep" /\ intAt[3] = "ret")

----------------------------------------------------------------------------
(* C3, C4, C8: one direct invocation of hardware_beep *)

\* the frequency truncated toward zero to whole hertz
TruncHz(fc) == IF fc < 0 THEN 0 - ((0 - fc) \div 100) ELSE fc \div 100

\* the frequency rounded to the nearest whole hertz
RoundHz(fc) == (fc + 50) \div 100

Playable(hz) == hz >= 37 /\ hz <= 32767

InTone == pc \in {"tone_wait", "tone_done"}

\* the invocation did nothing: no port read, no port write, no sleep
NoOpSoFar == Len(ops) = 1 /\ ops[1].op = "beep" /\ port61 = entry61

\* the invocation programmed the timer and toggled the gate
ProgrammedAndToggled ==
    /\ \E i \in DOMAIN ops : ops[i] = Op("out", 67, 182)
    /\ Len(DataWrites) = 2
    /\ Len(SpeakerWrites) = 2
    /\ GateBitsOf(SpeakerWrites[1].b) = 3
    /\ GateBitsOf(SpeakerWrites[2].b) = 0
    /\ \E i \in DOMAIN ops : ops[i].op = "sleep_beep"

\* C3 as written: hardware_beep is a no-op for every frequency that rounds
\* to an integer outside [37, 32767], and plays the boundary values 37 and
\* 32767.
C3_NoOpWhenRoundsOutside ==
    /\ (InTone /\ ~Playable(RoundHz(freq))) => NoOpSoFar
    /\ (pc = "tone_done" /\ freq \in {3700, 3276700}) => ProgrammedAndToggled

\* C3 amended: hardware_beep is a no-op exactly for the frequencies whose
\* truncation toward zero lies outside [37, 32767]; every other frequency,
\* the boundary values 37 and 32767 included, programs the timer and toggles
\* the gate.
C3_NoOpWhenTruncatesOutside ==
    /\ (InTone /\ ~Playable(TruncHz(freq))) => NoOpSoFar
    /\ (pc = "tone_done" /\ Playable(TruncHz(freq))) => ProgrammedAndToggled

\* 32767.6 Hz rounds to 32768 and is played all the same
C3_Witness ==
    /\ pc = "tone_done"
    /\ freq = 3276760
    /\ ProgrammedAndToggled

\* both data bytes of the invocation are written
DataWritten == InTone /\ Len(DataWrites) = 2

\* the two data bytes are the low and the high byte of d, and d fits 16 bits
BytesOf(d) ==
    /\ d >= 1 /\ d <= 65535
    /\ DataWrites[1].b = d % 256
    /\ DataWrites[2].b = d \div 256

\* C4 as written: for every frequency f in [37, 32767], fractional ones
\* included, the bytes written to port 0x42 are the low and then the high
\* byte of floor(1193180 / f), which lies in [1, 65535].
C4_DivisorOfExactFrequency ==
    (DataWritten /\ freq >= 3700 /\ freq <= 3276700)
        => BytesOf((1193180 * 100) \div freq)

\* C4 amended: for every frequency f whose truncation int(f) lies in
\* [37, 32767], the bytes written to port 0x42 are the low and then the high
\* byte of floor(1193180 / int(f)), which lies in [1, 65535].
C4_DivisorOfTruncatedFrequency ==
    /\ DataWritten => Playable(TruncHz(freq))
    /\ (DataWritten /\ Playable(TruncHz(freq)))
           => BytesOf(1193180 \div TruncHz(freq))

\* C4 (261.63 Hz): the bytes are those of 4571 = floor(1193180 / 261), not
\* of 4560 = floor(1193180 / 261.63)
C4_Witness ==
    /\ pc = "tone_done"
    /\ freq = 26163
    /\ DataWrites[1].b = 219
    /\ DataWrites[2].b = 17

\* C8: for every initial value v of port 0x61, a tone invocation writes
\* v | 0x03, then v & 0xFC: neither write changes bits 2-7, and a completed
\* in-range invocation leaves bits 0-1 at 0 whatever they were in v.
C8_GateForcedClear ==
    /\ InTone => UpperBitsOf(port61) = UpperBitsOf(entry61)
    /\ InTone => \A i \in DOMAIN SpeakerWrites :
                     UpperBitsOf(SpeakerWrites[i].b) = UpperBitsOf(entry61)
    /\ (InTone /\ Len(SpeakerWrites) >= 1)
           => SpeakerWrites[1].b = 4 * UpperBitsOf(entry61) + 3
    /\ (InTone /\ Len(SpeakerWrites) = 1) => port61 = SpeakerWrites[1].b
    /\ (pc = "tone_done" /\ Playable(TruncHz(freq)))
           => /\ Len(SpeakerWrites) = 2
              /\ SpeakerWrites[2].b = 4 * UpperBitsOf(entry61)
              /\ port61 = 4 * UpperBitsOf(entry61)

\* the gate bits were set before the call and are cleared after it
C8_Witness ==
    /\ pc = "tone_done"
    /\ entry61 = 255
    /\ Len(SpeakerWrites) = 2
    /\ port61 = 252

----------------------------------------------------------------------------
(* C5, C6, C7: parse_and_play *)

\* the token parse_and_play has branched on and not yet finished
Branched == ppc \in {"call", "in_beep", "pause"}

\* C5 as written: every token of decimal digits, "0" and "000" included, is
\* executed as a frequency equal to its numeric value: one tone invocation
\* with that integer and NOTE_DURATION, then a sleep of INTER_NOTE_GAP, and
\* never a pause.
C5_NumericTokenIsTone ==
    /\ (Branched /\ AllDecimal(tokens[ti]))
           => (ppc # "pause" /\ freq = 100 * DecimalValue(tokens[ti]))
    /\ (TokenDone /\ AllDecimal(tokens[ti - 1]))
           => EndsWithToken(ToneSteps(100 * DecimalValue(tokens[ti - 1])))

\* C5 amended: every token of decimal digits whose value is positive is
\* executed as a frequency equal to its numeric value: one tone invocation
\* with that integer and NOTE_DURATION, then a sleep of INTER_NOTE_GAP, and
\* never a pause; a token of decimal digits whose value is zero ("0", "000")
\* is executed as a pause, a single sleep of NOTE_DURATION with no tone
\* invocation.
C5_PositiveNumericTokenIsTone ==
    /\ (Branched /\ AllDecimal(tokens[ti]) /\ DecimalValue(tokens[ti]) > 0)
           => (ppc # "pause" /\ freq = 100 * DecimalValue(tokens[ti]))
    /\ (TokenDone /\ AllDecimal(tokens[ti - 1])
                  /\ DecimalValue(tokens[ti - 1]) > 0)
           => EndsWithToken(ToneSteps(100 * DecimalValue(tokens[ti - 1])))
    /\ (Branched /\ AllDecimal(tokens[ti]) /\ DecimalValue(tokens[ti]) = 0)
           => ppc = "pause"
    /\ (TokenDone /\ AllDecimal(tokens[ti - 1])
                  /\ DecimalValue(tokens[ti - 1]) = 0)
           => EndsWithToken(PauseSteps)

\* the token "000" after "0" has been executed as a pause, and "g5" follows
C5_Witness ==
    /\ TokenDone
    /\ ti = 3
    /\ tokens[2] = <<"0", "0", "0">>
    /\ PlaySteps = PauseSteps \o PauseSteps

\* C6: a token that is neither a Note Table key after upper-casing nor purely
\* numeric raises no error, invokes no tone, touches no port and sleeps
\* exactly NOTE_DURATION with no inter-note gap, after which the next token
\* is processed.
C6_UnrecognizedTokenIsPause ==
    /\ (pc = "crashed") => ~Unrecognized(tokens[ti])
    /\ (Branched /\ Unrecognized(tokens[ti])) => ppc = "pause"
    /\ (TokenDone /\ Unrecognized(tokens[ti - 1]))
           => (EndsWithToken(PauseSteps) /\ ~IsPortOp(ops[Len(ops)]))

\* what the resolution rules prescribe for one token: a Note Table key is
\* its frequency, a token of decimal digits is its value in Hz, anything
\* else is a pause
StepsOfToken(token) ==
    IF IsNoteName(token)
    THEN ToneSteps((CHOOSE p \in NoteTable : p[1] = StrUpper(token))[2])
    ELSE IF AllDecimal(token) THEN ToneSteps(100 * DecimalValue(token))
    ELSE PauseSteps

RECURSIVE StepsOfTokens(_)
StepsOfTokens(q) ==
    IF q = <<>> THEN <<>>
    ELSE StepsOfToken(Head(q)) \o StepsOfTokens(Tail(q))

\* C7: for any input string parse_and_play processes the tokens in input
\* order and returns after the last one: the tone invocations are, in order,
\* the frequencies of the resolved tokens, each with NOTE_DURATION and each
\* followed by one INTER_NOTE_GAP sleep, and there is one NOTE_DURATION
\* pause per unresolved token.
C7_SequencePlayedInOrder ==
    /\ pc # "crashed"
    /\ ppc = "ret" => PlaySteps = StepsOfTokens(Tokenize(PlayedInput))

----------------------------------------------------------------------------
(* C9 *)

NotesGiven == args_notes # None

\* C9: with --notes given and --loop true the sequence is replayed without
\* end, with a 0.5 s pause after each pass; the process ends only on an
\* interrupt, with status 0.  With --loop false the sequence is played once
\* and the process ends without entering interactive mode.
C9_LoopUntilInterrupted ==
    /\ NotesGiven => ~Interactive
    /\ (NotesGiven /\ args_loop = "true" /\ exit_status # -1)
           => (interrupted /\ exit_status = 0)
    /\ (NotesGiven /\ args_loop = "true" /\ pc = "loop_call" /\ passes > 0)
           => ops = << Op("sleep_main", 500, 0) >>
    /\ (NotesGiven /\ args_loop = "false" /\ pc = "done" /\ ~interrupted)
           => passes = 1

----------------------------------------------------------------------------
(* C10 *)

\* operation k of a tone invocation with divisor d and duration ms, whose
\* operations so far are q
ToneOpAt(q, k, d, ms) ==
    CASE k = 1 -> q[k] = Op("out", 67, 182)
      [] k = 2 -> q[k] = Op("out", 66, d % 256)
      [] k = 3 -> q[k] = Op("out", 66, (d \div 256) % 256)
      [] k = 4 -> q[k].op = "in" /\ q[k].a = 97
      [] k = 5 -> q[k] = Op("out", 97, 4 * (q[4].b \div 4) + 3)
      [] k = 6 -> q[k] = Op("sleep_beep", ms, 0)
      [] k = 7 -> q[k].op = "in" /\ q[k].a = 97
      [] k = 8 -> q[k] = Op("out", 97, 4 * (q[7].b \div 4))
      [] OTHER -> FALSE

\* positions of ops where a tone invocation begins
BeepStarts == { i \in DOMAIN ops : ops[i].op = "beep" }

\* the operations recorded after the invocation that begins at i and before
\* the next play step
OpsOfBeep(i) ==
    LET later == { j \in DOMAIN ops : j > i /\ IsPlayStep(ops[j]) }
        stop  == IF later = {} THEN Len(ops) + 1
                 ELSE CHOOSE j \in later : \A k \in later : j <= k
    IN  SubSeq(ops, i + 1, stop - 1)

\* the invocation that begins at i has returned
BeepReturned(i) ==
    \/ \E j \in DOMAIN ops : j > i /\ IsPlayStep(ops[j])
    \/ bpc = "ret"

\* the gate is enabled by the program at position i of ops
GateOnAfter(i) ==
    \E j \in 1..i :
        /\ IsSpeakerWrite(ops[j]) /\ GateBitsOf(ops[j].b) = 3
        /\ \A k \in (j + 1)..i : ~IsSpeakerWrite(ops[k])

\* C10: within every in-range tone invocation the operations are, in this
\* order, write 0xB6 to 0x43, write the divisor's low and high byte to 0x42,
\* read 0x61, write the enable value, sleep for the duration, read 0x61,
\* write the disable value.  So the gate is never enabled before the timer
\* of that tone is programmed, the timer is never reprogrammed while the
\* gate is enabled, and enable and disable writes alternate from an enable.
C10_ToneOperationOrder ==
    /\ \A i \in BeepStarts :
           LET done == OpsOfBeep(i)
               d    == 1193180 \div TruncHz(ops[i].a)
           IN  /\ \A k \in DOMAIN done : ToneOpAt(done, k, d, ops[i].b)
               /\ (BeepReturned(i) /\ Playable(TruncHz(ops[i].a)))
                      => Len(done) = 8
    /\ \A i \in DOMAIN ops :
           (IsSpeakerWrite(ops[i]) /\ GateBitsOf(ops[i].b) = 3)
               => /\ i > 4
                  /\ ops[i - 4] = Op("out", 67, 182)
                  /\ IsDataWrite(ops[i - 3])
                  /\ IsDataWrite(ops[i - 2])
    /\ \A i \in DOMAIN ops :
           (i > 1 /\ IsTimerWrite(ops[i])) => ~GateOnAfter(i - 1)
    /\ \A i \in DOMAIN SpeakerWrites :
           GateBitsOf(SpeakerWrites[i].b) = (IF i % 2 = 1 THEN 3 ELSE 0)

\* two tones of one sequence have been played to the end
C10_Witness ==
    /\ ppc = "ret"
    /\ Len(SpeakerWrites) = 4
    /\ Cardinality(BeepStarts) = 2

====
